---- MODULE Spec2Model ----
(***************************************************************************)
(* The sampling-and-windowing pipeline of RGM, in its two programs:        *)
(*   "app"  : src/src/app.rs with the monitor of src/src/monitor.rs        *)
(*            (time-bounded history, display_duration fixed at 10 s);      *)
(*   "main" : src/src/main.rs (count-bounded history, inline sampling with *)
(*            process-id deduplication, display-duration buttons).         *)
(* A sampler thread samples the driver and sends (GpuData, Vec<ProcessInfo>)*)
(* on a bounded channel; the UI thread's update() drains the channel into  *)
(* the history (data) and the process table (processes) and then renders.  *)
(* Timestamps are whole seconds since the monitor's start.                 *)
(***************************************************************************)
EXTENDS Integers, Sequences, FiniteSets

VARIABLES
    program,           \* "app" | "main": which of the two programs runs
    clock,             \* start_time.elapsed(), in seconds
    sampler_pc,        \* position of the sampler thread
    out,               \* the entry the sampler is sending (<<>> if none)
    produced,          \* number of samples the sampler has produced so far
    chan,              \* the bounded channel, oldest entry first
    receiver,          \* "alive" | "dropped": the Receiver held by RgmApp
    data,              \* RgmApp.data: the history VecDeque<GpuData>
    processes,         \* RgmApp.processes: the process table
    display_duration,  \* RgmApp.display_duration
    ui_pc,             \* position of the UI thread inside update()
    proc_infos,        \* update()'s binding proc_infos of the entry last received
    window_start_time, \* update()'s local window_start_time (app.rs)
    held,              \* the store locks the UI thread holds, in acquisition order
    drained_in_pass,   \* whether the current drain pass has received an entry
    drained_lists,     \* the process lists of all entries received so far
    monitor,           \* the NvmlMonitor of the call-by-call runs: "unbuilt" |
                       \* "built" | "panicked"
    asked,             \* what the driver answered during the last monitor call
    result,            \* what the last monitor call returned
    plot               \* what the central panel drew in the last frame

vars == <<program, clock, sampler_pc, out, produced, chan, receiver, data,
          processes, display_duration, ui_pc, proc_infos, window_start_time,
          held, drained_in_pass, drained_lists, monitor, asked, result, plot>>

\* the variables of the call-by-call runs of the monitor and of the panel
fnVars == <<monitor, asked, result, plot>>

----------------------------------------------------------------------------
(* Bounds of the model *)

\* last second at which the sampler still wakes up
MaxTime == 12
\* shortest and longest time one sleep of the sampler takes, in seconds
MinStep == 2
MaxStep == 5
\* capacity of the channel (bounded(100) in the programs), scaled down
ChannelCap == 1
\* RgmApp.max_data_points (1500 in main.rs), scaled down
MaxDataPoints == 3
\* the longest process list the driver reports
MaxProcs == 2

(* Constants of the programs *)

\* app.rs: display_duration: 10.0
AppDisplayDuration == 10
\* main.rs: display_duration: 60.0, and the duration buttons
MainDisplayDuration == 60
Preset30 == 30
Preset60 == 60
Preset300 == 300

----------------------------------------------------------------------------
(* Data *)

Max2(a, b) == IF a >= b THEN a ELSE b

NoCall == [call |-> "none"]
NoPlot == [drawn |-> FALSE]

\* GpuData: the timestamp is the windowing key; seq numbers the samples in the
\* order the sampler produced them.
GpuData(t, n) == [timestamp |-> t, seq |-> n]

\* UsedGpuMemory: Used(v) or Unavailable
Used(v) == [variant |-> "Used", v |-> v]
Unavailable == [variant |-> "Unavailable", v |-> 0]

\* match proc.used_gpu_memory { Used(v) => v, _ => 0 }
memory_usage_of(used_gpu_memory) ==
    IF used_gpu_memory.variant = "Used" THEN used_gpu_memory.v ELSE 0

\* the ProcessInfo built from one process the driver reports
ProcessInfo(proc) ==
    [pid |-> proc.pid, memory_usage |-> memory_usage_of(proc.used_gpu_memory)]

\* the process ids the driver reports
Pids == {1}

\* what running_graphics_processes() can answer: an error, or a list of
\* processes in which the same process id may occur more than once (once per
\* context); the i-th process listed uses i bytes, so that two entries of one
\* process differ
DriverLists ==
    UNION {{[i \in 1..n |-> [pid |-> f[i], used_gpu_memory |-> Used(i)]] :
               f \in [1..n -> Pids]} : n \in 0..MaxProcs}

ProcsErr == [ok |-> FALSE, procs |-> <<>>]

DriverProcResults == {ProcsErr} \cup {[ok |-> TRUE, procs |-> l] : l \in DriverLists}

----------------------------------------------------------------------------
(* The monitor and the inline sampling code *)

SampleErr == [ok |-> FALSE]

\* monitor.rs: every process the driver lists becomes one ProcessInfo
process_infos_monitor(procs_result) ==
    IF ~procs_result.ok THEN <<>>
    ELSE [i \in 1..Len(procs_result.procs) |-> ProcessInfo(procs_result.procs[i])]

\* main.rs: a process is pushed only if no ProcessInfo pushed before has its pid
RECURSIVE push_unseen(_, _)
push_unseen(procs, acc) ==
    IF procs = <<>> THEN acc
    ELSE LET proc == Head(procs)
         IN  IF \E i \in 1..Len(acc) : acc[i].pid = proc.pid
             THEN push_unseen(Tail(procs), acc)
             ELSE push_unseen(Tail(procs), Append(acc, ProcessInfo(proc)))

process_infos_main(procs_result) ==
    IF ~procs_result.ok THEN <<>> ELSE push_unseen(procs_result.procs, <<>>)

\* NvmlMonitor::sample: Err when a core query fails, else the sample and the
\* process list
sample_monitor(core_ok, procs_result, now, n) ==
    IF ~core_ok THEN SampleErr
    ELSE [ok |-> TRUE, gpu_data |-> GpuData(now, n),
          proc_infos |-> process_infos_monitor(procs_result)]

\* the body of main.rs's sampler loop up to the send
sample_main(core_ok, procs_result, now, n) ==
    IF ~core_ok THEN SampleErr
    ELSE [ok |-> TRUE, gpu_data |-> GpuData(now, n),
          proc_infos |-> process_infos_main(procs_result)]

\* where the sampler loop goes after a failed send: it breaks
after_send_err_retry == "sleep"
after_send_err == "done"

\* where the sampler loop goes after a failed sample: it logs, sleeps, loops
after_sample_err_break == "done"
after_sample_err == "sleep"

----------------------------------------------------------------------------
(* The stores *)

push_back_front(d, x) == <<x>> \o d
push_back(d, x) == Append(d, x)

\* app.rs: window_start_time = (now - self.display_duration).max(0.0)
window_start_ahead(now, dd) == Max2(now + dd, 0)
window_start(now, dd) == Max2(now - dd, 0)

\* app.rs: while front.timestamp < window_start_time { pop_front }
RECURSIVE evict_time_le(_, _)
evict_time_le(d, ws) ==
    IF d # <<>> /\ Head(d).timestamp <= ws THEN evict_time_le(Tail(d), ws) ELSE d
evict_time_none(d, ws) == d
RECURSIVE evict_time(_, _)
evict_time(d, ws) ==
    IF d # <<>> /\ Head(d).timestamp < ws THEN evict_time(Tail(d), ws) ELSE d

\* main.rs: while data.len() > max_data_points { pop_front }
RECURSIVE evict_count_ge(_, _)
evict_count_ge(d, max) ==
    IF Len(d) >= max THEN evict_count_ge(Tail(d), max) ELSE d
evict_count_late(d, max) ==
    IF Len(d) > max + 1 THEN Tail(d) ELSE d
RECURSIVE evict_count(_, _)
evict_count(d, max) ==
    IF Len(d) > max THEN evict_count(Tail(d), max) ELSE d

\* *processes = proc_infos
replace_merge(old, new) == old \o new
replace_unless_empty(old, new) == IF new = <<>> THEN old ELSE new
replace(old, new) == new

\* bounded(100): a send finds the channel full once it holds its capacity
is_full_never(c) == FALSE
is_full(c) == Len(c) >= ChannelCap

\* receiver.try_recv() returns at once, whether or not an entry is pending (a
\* blocking recv() would return only once one is)
recv_returns(c) == c # <<>>
try_recv_returns(c) == TRUE

\* receiver.try_recv(): the oldest entry, or Empty
Empty == [ok |-> FALSE]
try_recv(c) ==
    IF c = <<>> THEN Empty
    ELSE [ok |-> TRUE, gpu_data |-> Head(c).gpu_data, proc_infos |-> Head(c).proc_infos]

\* the history after one evaluation of the loop head and the push
data_after_recv_pop(r, d) ==
    IF ~r.ok THEN (IF d = <<>> THEN d ELSE Tail(d))
    ELSE push_back(d, r.gpu_data)
data_after_recv(r, d) ==
    IF ~r.ok THEN d ELSE push_back(d, r.gpu_data)

----------------------------------------------------------------------------
(* Initial state: RgmApp::new has returned and the sampler thread is spawned *)

Init ==
    /\ program \in {"app", "main"}
    /\ clock = 0
    /\ sampler_pc = IF program = "app" THEN "sample" ELSE "init"
    /\ out = <<>>
    /\ produced = 0
    /\ chan = <<>>
    /\ receiver = "alive"
    /\ data = <<>>
    /\ processes = <<>>
    /\ display_duration =
           IF program = "app" THEN AppDisplayDuration ELSE MainDisplayDuration
    /\ ui_pc = "recv"
    /\ proc_infos = <<>>
    /\ window_start_time = 0
    /\ held = <<>>
    /\ drained_in_pass = FALSE
    /\ drained_lists = {}
    /\ monitor = "unbuilt"
    /\ asked = NoCall
    /\ result = NoCall
    /\ plot = NoPlot

uiVars == <<data, processes, display_duration, ui_pc, proc_infos,
            window_start_time, held, drained_in_pass, drained_lists>>

----------------------------------------------------------------------------
(* The sampler thread *)

\* main.rs: Nvml::init() and device_by_index(0); the thread returns on failure
SamplerInit ==
    /\ sampler_pc = "init"
    /\ \E init_ok \in BOOLEAN :
           sampler_pc' = IF init_ok THEN "sample" ELSE "exited"
    /\ UNCHANGED <<program, clock, out, produced, chan, receiver>>
    /\ UNCHANGED uiVars
    /\ UNCHANGED fnVars

\* one sample: monitor.sample() in app.rs, the inline queries in main.rs
SamplerSample ==
    /\ sampler_pc = "sample"
    /\ \E core_ok \in BOOLEAN, procs_result \in DriverProcResults :
           LET r == IF program = "app"
                    THEN sample_monitor(core_ok, procs_result, clock, produced)
                    ELSE sample_main(core_ok, procs_result, clock, produced)
           IN  IF r.ok
               THEN /\ out' = <<[gpu_data |-> r.gpu_data, proc_infos |-> r.proc_infos]>>
                    /\ produced' = produced + 1
                    /\ sampler_pc' = "send"
               ELSE /\ sampler_pc' = after_sample_err
                    /\ UNCHANGED <<out, produced>>
    /\ UNCHANGED <<program, clock, chan, receiver>>
    /\ UNCHANGED uiVars
    /\ UNCHANGED fnVars

\* sender.send(..): fails once the receiver is dropped (the loop breaks), blocks
\* while the channel is full, else appends the entry
SamplerSend ==
    /\ sampler_pc = "send"
    /\ IF receiver = "dropped"
       THEN /\ sampler_pc' = after_send_err
            /\ out' = <<>>
            /\ UNCHANGED chan
       ELSE /\ ~is_full(chan)
            /\ chan' = Append(chan, out[1])
            /\ out' = <<>>
            /\ sampler_pc' = "sleep"
    /\ UNCHANGED <<program, clock, produced, receiver>>
    /\ UNCHANGED uiVars
    /\ UNCHANGED fnVars

\* thread::sleep(..): time passes, then the loop starts over
SamplerSleep ==
    /\ sampler_pc = "sleep"
    /\ \E d \in MinStep..MaxStep :
           /\ clock + d <= MaxTime
           /\ clock' = clock + d
    /\ sampler_pc' = "sample"
    /\ UNCHANGED <<program, out, produced, chan, receiver>>
    /\ UNCHANGED uiVars
    /\ UNCHANGED fnVars

----------------------------------------------------------------------------
(* The UI thread: RgmApp::update, one call per frame *)

\* the head of `while let Ok(..) = self.receiver.try_recv()` and, when an entry
\* was received, the body up to the push: the history lock is taken and the
\* sample appended (app.rs computes window_start_time first; main.rs goes on
\* to take the process lock and replace the process table). When the channel
\* is empty the loop ends and update() goes on to render.
UiTryRecv ==
    /\ ui_pc = "recv"
    /\ receiver = "alive"
    /\ try_recv_returns(chan)
    /\ LET r == try_recv(chan)
       IN  /\ data' = data_after_recv(r, data)
           /\ IF r.ok
              THEN /\ chan' = Tail(chan)
                   /\ proc_infos' = r.proc_infos
                   /\ window_start_time' =
                          IF program = "app"
                          THEN window_start(r.gpu_data.timestamp, display_duration)
                          ELSE window_start_time
                   /\ processes' =
                          IF program = "main"
                          THEN replace(processes, r.proc_infos)
                          ELSE processes
                   /\ held' = IF program = "app"
                              THEN <<"data">> ELSE <<"data", "processes">>
                   /\ ui_pc' = "evict"
                   /\ drained_in_pass' = TRUE
                   /\ drained_lists' = drained_lists \cup {r.proc_infos}
              ELSE /\ ui_pc' = "render"
                   /\ UNCHANGED <<chan, proc_infos, window_start_time, processes,
                                  held, drained_in_pass, drained_lists>>
    /\ UNCHANGED <<program, clock, sampler_pc, out, produced, receiver,
                   display_duration>>
    /\ UNCHANGED fnVars

\* the rest of the loop body: the eviction loop (and, in app.rs, the process
\* lock and the replacement of the process table); both guards are dropped at
\* the end of the iteration
UiEvict ==
    /\ ui_pc = "evict"
    /\ IF program = "app"
       THEN /\ data' = evict_time(data, window_start_time)
            /\ processes' = replace(processes, proc_infos)
       ELSE /\ data' = evict_count(data, MaxDataPoints)
            /\ UNCHANGED processes
    /\ held' = <<>>
    /\ ui_pc' = "recv"
    /\ UNCHANGED <<program, clock, sampler_pc, out, produced, chan, receiver,
                   display_duration, proc_infos, window_start_time,
                   drained_in_pass, drained_lists>>
    /\ UNCHANGED fnVars

\* main.rs: now = data_guard.back().map_or(0.0, |d| d.timestamp)
now_of(d) == IF d = <<>> THEN 0 ELSE d[Len(d)].timestamp

\* main.rs: the duration buttons; "none" when no button is clicked this frame
Buttons == {"none", "30s", "1min", "5min", "all"}

clicked(button, dd, now) ==
    CASE button = "30s"  -> Preset30
      [] button = "1min" -> Preset60
      [] button = "5min" -> Preset300
      [] button = "all"  -> now
      [] OTHER           -> dd

\* the central panel: the stores are read under their locks, which are released
\* before update() returns; main.rs then handles the duration buttons
UiRender ==
    /\ ui_pc = "render"
    /\ IF program = "main"
       THEN \E button \in Buttons :
                display_duration' = clicked(button, display_duration, now_of(data))
       ELSE UNCHANGED display_duration
    /\ ui_pc' = "recv"
    /\ drained_in_pass' = FALSE
    /\ UNCHANGED <<program, clock, sampler_pc, out, produced, chan, receiver,
                   data, processes, proc_infos, window_start_time, held,
                   drained_lists>>
    /\ UNCHANGED fnVars

\* the window is closed between two frames: RgmApp is dropped, and with it the
\* receiver (the channel disconnects and its pending entries are discarded)
\* and both stores
UiClose ==
    /\ ui_pc = "recv"
    /\ ~drained_in_pass
    /\ receiver = "alive"
    /\ receiver' = "dropped"
    /\ ui_pc' = "closed"
    /\ chan' = <<>>
    /\ data' = <<>>
    /\ processes' = <<>>
    /\ proc_infos' = <<>>
    /\ window_start_time' = 0
    /\ drained_lists' = {}
    /\ display_duration' =
           IF program = "app" THEN AppDisplayDuration ELSE MainDisplayDuration
    /\ UNCHANGED <<program, clock, sampler_pc, out, produced, held,
                   drained_in_pass>>
    /\ UNCHANGED fnVars

----------------------------------------------------------------------------
Next ==
    \/ SamplerInit
    \/ SamplerSample
    \/ SamplerSend
    \/ SamplerSleep
    \/ UiTryRecv
    \/ UiEvict
    \/ UiRender
    \/ UiClose

Spec == Init /\ [][Next]_vars

----------------------------------------------------------------------------
(* Notions the properties use *)

DataLockFree == \A i \in 1..Len(held) : held[i] # "data"

Newest(d) == d[Len(d)]

Timestamps(d) == [i \in 1..Len(d) |-> d[i].timestamp]

\* the samples on their way, oldest first: the history, then the channel, then
\* the entry the sampler is sending
Pipeline ==
    data \o [i \in 1..Len(chan) |-> chan[i].gpu_data]
         \o [i \in 1..Len(out) |-> out[i].gpu_data]

\* a drain iteration completes / a drain pass ends on an empty channel
EvictStep == ui_pc = "evict" /\ ui_pc' = "recv"
EmptyRecvStep == ui_pc = "recv" /\ ui_pc' = "render"

----------------------------------------------------------------------------
(* C1: in the time-bounded consumer (app.rs), after each drain step no sample
   in the history is older than newest.timestamp - display_duration, i.e.
   latest.timestamp - oldest.timestamp <= display_duration. *)
C1_TimeWindow ==
    (program = "app" /\ DataLockFree /\ data # <<>>) =>
        \A i \in 1..Len(data) :
            Newest(data).timestamp - data[i].timestamp <= display_duration

\* samples have been evicted and the oldest one kept is exactly
\* display_duration older than the newest
C1_Witness ==
    /\ program = "app"
    /\ DataLockFree
    /\ Len(data) >= 2
    /\ data[1].seq > 0
    /\ Newest(data).timestamp - data[1].timestamp = display_duration

(* C2: after any interleaving of sampler sends and drain steps the history
   holds samples in the order the sampler produced them: it is a contiguous
   run of the produced sequence (consecutive sequence numbers, none repeated),
   continued by the channel and the entry being sent up to the last sample
   produced, and it is non-decreasing by timestamp. *)
C2_Fifo ==
    /\ \A i \in 1..(Len(Pipeline) - 1) :
           /\ Pipeline[i + 1].seq = Pipeline[i].seq + 1
           /\ Pipeline[i].timestamp <= Pipeline[i + 1].timestamp
    /\ (receiver = "alive" /\ Pipeline # <<>>) =>
           Newest(Pipeline).seq = produced - 1

\* a history that has lost its oldest samples, with more on the way
C2_Witness ==
    /\ Len(data) >= 3
    /\ data[1].seq > 0
    /\ chan # <<>>
    /\ out # <<>>

(* C3: the process list handed over by the sampler contains each process id
   at most once. *)
C3_UniquePids ==
    \A k \in 1..Len(chan) :
        \A i, j \in 1..Len(chan[k].proc_infos) :
            chan[k].proc_infos[i].pid = chan[k].proc_infos[j].pid => i = j

(* C4: a failed sample does not end the sampler loop, sends nothing (channel,
   history and process table are as before) and leads to the sleep, after
   which the loop samples again. *)
C4_FailedSample ==
    [][ /\ (sampler_pc = "sample" /\ sampler_pc' \notin {"sample", "send"}) =>
            /\ sampler_pc' = "sleep"
            /\ chan' = chan
            /\ out' = out
            /\ data' = data
            /\ processes' = processes
        /\ (sampler_pc = "sleep" /\ sampler_pc' # "sleep") =>
            sampler_pc' = "sample"
      ]_vars

\* the sampler is sampling again although every sample so far has failed
C4_Witness ==
    /\ sampler_pc = "sample"
    /\ clock > 0
    /\ produced = 0
    /\ chan = <<>>
    /\ data = <<>>
    /\ receiver = "alive"

(* C5 as stated: the display duration is adjustable at runtime and, once the
   drain pass after a change has run, no sample older than
   newest.timestamp - display_duration remains in the history (main.rs). *)
C5_EvictsWithNewDuration ==
    (program = "main" /\ ui_pc = "render" /\ drained_in_pass /\ data # <<>>) =>
        \A i \in 1..Len(data) :
            data[i].timestamp >= Newest(data).timestamp - display_duration

(* C5 as amended: the display duration is adjustable at runtime, but in
   main.rs the drain evicts by count alone: whatever the display duration is,
   the history holds the newest min(n, max_data_points) of the n samples
   received so far, so samples older than newest.timestamp - display_duration
   stay in it. *)
C5_CountOnlyEviction ==
    (program = "main" /\ DataLockFree /\ data # <<>>) =>
        /\ Len(data) = (IF Newest(data).seq + 1 <= MaxDataPoints
                        THEN Newest(data).seq + 1 ELSE MaxDataPoints)
        /\ display_duration \in {Preset30, Preset60, Preset300} \cup 0..MaxTime

\* the duration was changed, a drain pass has received a sample since, and a
\* sample older than newest.timestamp - display_duration is still there
C5_Witness ==
    /\ program = "main"
    /\ ui_pc = "render"
    /\ drained_in_pass
    /\ display_duration # MainDisplayDuration
    /\ data # <<>>
    /\ data[1].timestamp < Newest(data).timestamp - display_duration

(* C6: in the count-bounded consumer (main.rs) the history never holds more
   than max_data_points samples while its lock is free, and an eviction only
   removes samples from the front. *)
C6_CountBound ==
    /\ [](program = "main" /\ DataLockFree => Len(data) <= MaxDataPoints)
    /\ [][(program = "main" /\ EvictStep) =>
              \E k \in 0..Len(data) : data' = SubSeq(data, k + 1, Len(data))]_vars

\* a full history from which older samples have been evicted
C6_Witness ==
    /\ program = "main"
    /\ DataLockFree
    /\ Len(data) = MaxDataPoints
    /\ data[1].seq > 0

(* C7: the drain step that appended a sample with timestamp t evicts exactly
   the samples with timestamp < max(0, t - display_duration); every other
   sample, one with timestamp equal to the threshold included, stays, in
   order. For timestamps [0, 2, 4, 6, 11] and duration 10 the history after
   appending 11 is [2, 4, 6, 11]. *)
C7_ExactEviction ==
    [][(program = "app" /\ EvictStep) =>
          LET t == Newest(data).timestamp
              threshold == IF t - display_duration >= 0
                           THEN t - display_duration ELSE 0
              Stays(x) == x.timestamp >= threshold
          IN  /\ data' = SelectSeq(data, Stays)
              /\ (Timestamps(data) = <<0, 2, 4, 6, 11>> /\ display_duration = 10) =>
                     Timestamps(data') = <<2, 4, 6, 11>>
      ]_vars

\* the scenario's outcome: 0 was evicted when 11 was appended
C7_Witness ==
    /\ program = "app"
    /\ DataLockFree
    /\ display_duration = 10
    /\ Timestamps(data) = <<2, 4, 6, 11>>
    /\ data[1].seq = 1

\* a sample whose timestamp equals the threshold has stayed
C7_WitnessEqual ==
    /\ program = "app"
    /\ DataLockFree
    /\ Len(data) >= 2
    /\ data[1].seq > 0
    /\ data[1].timestamp = Newest(data).timestamp - display_duration

(* C8: a drain pass that finds the channel empty leaves the history and the
   process table exactly as they were, every time. *)
C8_EmptyDrain ==
    [][EmptyRecvStep => (data' = data /\ processes' = processes)]_vars

\* a pass that received nothing has ended, with both stores non-empty
C8_Witness ==
    /\ ui_pc = "render"
    /\ ~drained_in_pass
    /\ data # <<>>
    /\ processes # <<>>

(* C9: whenever the renderer reads the process table, the list it reads is the
   process list of one entry that was drained, or the initial empty list. *)
C9_WholeList ==
    ui_pc = "render" => processes \in ({<<>>} \cup drained_lists)

\* the renderer reads a non-empty list after several different lists were drained
C9_Witness ==
    /\ ui_pc = "render"
    /\ Cardinality(drained_lists) >= 3
    /\ Len(processes) = 1

(* C10: after a drain pass that received entries the process table is the
   process list of the last entry drained, an empty one included; and the
   table changes only in a pass that received an entry. *)
C10_LastListWins ==
    /\ []((ui_pc = "render" /\ drained_in_pass) => processes = proc_infos)
    /\ [][(processes' # processes /\ receiver' = "alive") =>
              (drained_in_pass' /\ ui_pc \in {"recv", "evict"})]_vars

\* an empty list has replaced a non-empty one
C10_Witness ==
    /\ ui_pc = "render"
    /\ drained_in_pass
    /\ processes = <<>>
    /\ \E l \in drained_lists : l # <<>>

----------------------------------------------------------------------------
(* The central panel of update(), frame by frame: what it draws from a      *)
(* history of full samples.  A float is a record: finite with its value,    *)
(* or the NaN / infinity a division by zero gives.                          *)

\* the longest history a frame is drawn from
MaxHist == 2

Finite(v) == [kind |-> "finite", v |-> v]
NaN == [kind |-> "NaN", v |-> 0]
Infinity == [kind |-> "inf", v |-> 0]

\* a / b * 100.0 in f64
percent(a, b) ==
    IF b # 0 THEN Finite((a * 100) \div b)
    ELSE IF a = 0 THEN NaN ELSE Infinity

\* what the driver may have reported for one sample (memory in GB, power in W)
Telemetry ==
    [utilization : {0, 1}, memory_used : {0, 1}, memory_total : {0, 2},
     temperature : {40}, power_usage : {0, 1}, power_limit : {0, 2}]

\* the GpuData with all the fields the panel reads
GpuDataOf(t, f) ==
    [timestamp |-> t, utilization |-> f.utilization,
     memory_used |-> f.memory_used, memory_total |-> f.memory_total,
     temperature |-> f.temperature, power_usage |-> f.power_usage,
     power_limit |-> f.power_limit]

\* the histories the drain can leave: oldest first, timestamps increasing
Histories ==
    UNION {{[i \in 1..n |-> GpuDataOf(i, fs[i])] : fs \in [1..n -> Telemetry]}
               : n \in 0..MaxHist}

\* data_guard.back().map_or(0.0, |d| d.timestamp)
latest_timestamp(d) == IF d = <<>> THEN 0 ELSE d[Len(d)].timestamp

\* the x of a point: seconds before the newest sample (app.rs), or the
\* timestamp itself (main.rs)
x_of(prog, d, s) ==
    IF prog = "app" THEN Max2(latest_timestamp(d) - s.timestamp, 0)
    ELSE s.timestamp

gpu_util_points(prog, d) ==
    [i \in 1..Len(d) |-> <<x_of(prog, d, d[i]), Finite(d[i].utilization)>>]

memory_points(prog, d) ==
    [i \in 1..Len(d) |->
        <<x_of(prog, d, d[i]), percent(d[i].memory_used, d[i].memory_total)>>]

temp_points(prog, d) ==
    [i \in 1..Len(d) |-> <<x_of(prog, d, d[i]), Finite(d[i].temperature)>>]

power_points_unfiltered(prog, d) ==
    [i \in 1..Len(d) |->
        <<x_of(prog, d, d[i]), percent(d[i].power_usage, d[i].power_limit)>>]

power_points(prog, d) ==
    LET kept == SelectSeq(d, LAMBDA s : s.power_limit > 0)
    IN  [i \in 1..Len(kept) |->
            <<x_of(prog, d, kept[i]),
              percent(kept[i].power_usage, kept[i].power_limit)>>]

\* the divisions the GPU Details labels of main.rs perform on the newest sample
details_divisions(prog, d) ==
    IF prog = "main" /\ d # <<>>
    THEN LET latest == d[Len(d)]
         IN  {[num |-> latest.memory_used, den |-> latest.memory_total]}
                 \cup (IF latest.power_limit > 0
                       THEN {[num |-> latest.power_usage,
                              den |-> latest.power_limit]}
                       ELSE {})
    ELSE {}

\* the divisions the plot series perform
points_divisions(d) ==
    {[num |-> d[i].memory_used, den |-> d[i].memory_total] : i \in 1..Len(d)}
        \cup {[num |-> d[i].power_usage, den |-> d[i].power_limit] :
                  i \in {j \in 1..Len(d) : d[j].power_limit > 0}}

\* one frame of the central panel
panel(prog, d) ==
    [drawn |-> TRUE,
     gpu_util_points |-> gpu_util_points(prog, d),
     memory_points |-> memory_points(prog, d),
     temp_points |-> temp_points(prog, d),
     power_points |-> power_points(prog, d),
     divisions |-> details_divisions(prog, d) \cup points_divisions(d)]

InitRender ==
    /\ program \in {"app", "main"}
    /\ clock = 0
    /\ sampler_pc = "exited"
    /\ out = <<>>
    /\ produced = 0
    /\ chan = <<>>
    /\ receiver = "alive"
    /\ data \in Histories
    /\ processes = <<>>
    /\ display_duration = IF program = "app" THEN AppDisplayDuration
                          ELSE MainDisplayDuration
    /\ ui_pc = "render"
    /\ proc_infos = <<>>
    /\ window_start_time = 0
    /\ held = <<>>
    /\ drained_in_pass = FALSE
    /\ drained_lists = {}
    /\ monitor = "unbuilt"
    /\ asked = NoCall
    /\ result = NoCall
    /\ plot = NoPlot

\* the central panel is drawn from the history, under the data lock
Render ==
    /\ ui_pc = "render"
    /\ ~plot.drawn
    /\ plot' = panel(program, data)
    /\ ui_pc' = "recv"
    /\ UNCHANGED <<program, clock, sampler_pc, out, produced, chan, receiver,
                   data, processes, display_duration, proc_infos,
                   window_start_time, held, drained_in_pass, drained_lists,
                   monitor, asked, result>>

\* the next frame begins (its drain finds nothing)
NextFrame ==
    /\ ui_pc = "recv"
    /\ plot.drawn
    /\ plot' = NoPlot
    /\ ui_pc' = "render"
    /\ UNCHANGED <<program, clock, sampler_pc, out, produced, chan, receiver,
                   data, processes, display_duration, proc_infos,
                   window_start_time, held, drained_in_pass, drained_lists,
                   monitor, asked, result>>

NextRender == Render \/ NextFrame

SpecRender == InitRender /\ [][NextRender]_vars

\* the samples of the history whose power limit is known
Limited == {i \in 1..Len(data) : data[i].power_limit > 0}

\* series s has exactly one point for each sample of the index set I
PointPerSample(s, I) ==
    /\ Len(s) = Cardinality(I)
    /\ \A i \in I : \E j \in 1..Len(s) : s[j][1] = x_of(program, data, data[i])
    /\ \A j \in 1..Len(s) : \E i \in I : s[j][1] = x_of(program, data, data[i])

(* C11: for every history, the power series has one point for each sample
   with power_limit > 0 and none for the others, while the utilization, memory
   and temperature series have one point for every sample, the utilization and
   temperature being the sample's own. *)
C11_PowerSeriesFiltered ==
    plot.drawn =>
        /\ PointPerSample(plot.power_points, Limited)
        /\ PointPerSample(plot.gpu_util_points, 1..Len(data))
        /\ PointPerSample(plot.memory_points, 1..Len(data))
        /\ PointPerSample(plot.temp_points, 1..Len(data))
        /\ \A i \in 1..Len(data) :
              /\ plot.gpu_util_points[i][2] = Finite(data[i].utilization)
              /\ plot.temp_points[i][2] = Finite(data[i].temperature)

\* a frame drawn from a history with and without a known power limit
C11_Witness ==
    /\ plot.drawn
    /\ Limited # {}
    /\ Limited # 1..Len(data)
    /\ Len(plot.power_points) = Cardinality(Limited)

(* C12: the panel never divides by zero: every percentage division of a frame
   has a non-zero denominator. *)
C12_NoZeroDenominator ==
    plot.drawn => \A q \in plot.divisions : q.den # 0

----------------------------------------------------------------------------
(* The monitor of monitor.rs, call by call: NvmlMonitor::new,               *)
(* get_static_info and sample against a driver whose every query either     *)
(* fails or gives the value below.                                          *)

\* what the driver gives when a query succeeds (memory in bytes, power in
\* milliwatts, PCIe throughput in KB/s)
Driver ==
    [utilization |-> 50,
     memory_used |-> 1024 * 1024 * 1024,
     memory_total |-> 1024 * 1024 * 1024,
     temperature |-> 40,
     clock_graphics |-> 1500, clock_memory |-> 7000,
     power_usage |-> 150000, power_management_limit |-> 300000,
     fan_speed |-> 30,
     pcie_send |-> 1024, pcie_receive |-> 2048,
     name |-> "GPU", uuid |-> "GPU-1", sys_driver_version |-> "550",
     vbios_version |-> "95", current_pcie_link_gen |-> 4,
     current_pcie_link_width |-> 16]

\* the conversion of an NvmlError that the ? operator applies (#[from])
from_nvml_error == "NvmlInit"

Err(kind) == [ok |-> FALSE, kind |-> kind]

\* Result::unwrap_or / unwrap_or_else
unwrap_or_value(ok, v, default) == v
unwrap_or(ok, v, default) == IF ok THEN v ELSE default

\* the answers to the queries of NvmlMonitor::new; the device is looked up
\* only once the library is initialized
NewAnswers ==
    {[init_ok |-> FALSE, device_ok |-> FALSE],
     [init_ok |-> TRUE, device_ok |-> FALSE],
     [init_ok |-> TRUE, device_ok |-> TRUE]}

\* NvmlMonitor::new(device_index)
new(a) ==
    IF ~a.init_ok THEN Err(from_nvml_error)
    ELSE IF ~a.device_ok THEN Err(from_nvml_error)
    ELSE [ok |-> TRUE, kind |-> "NvmlMonitor"]

\* which of the queries of get_static_info succeed
InfoQueries ==
    [name : BOOLEAN, uuid : BOOLEAN, sys_driver_version : BOOLEAN,
     vbios_version : BOOLEAN, current_pcie_link_gen : BOOLEAN,
     current_pcie_link_width : BOOLEAN]

\* the answers when a failed device lookup ended the call before the queries
NoInfoQueries ==
    [name |-> FALSE, uuid |-> FALSE, sys_driver_version |-> FALSE,
     vbios_version |-> FALSE, current_pcie_link_gen |-> FALSE,
     current_pcie_link_width |-> FALSE]

InfoAnswers ==
    {[device_ok |-> TRUE, q |-> q] : q \in InfoQueries}
        \cup {[device_ok |-> FALSE, q |-> NoInfoQueries]}

\* the GpuInfo of get_static_info, once the device is at hand
GpuInfo(q) ==
    [name |-> unwrap_or(q.name, Driver.name, "N/A"),
     uuid |-> unwrap_or(q.uuid, Driver.uuid, "N/A"),
     driver_version |->
         unwrap_or(q.sys_driver_version, Driver.sys_driver_version, "N/A"),
     vbios_version |-> unwrap_or(q.vbios_version, Driver.vbios_version, "N/A"),
     pcie_gen |->
         unwrap_or(q.current_pcie_link_gen, Driver.current_pcie_link_gen, 0),
     pcie_width |->
         unwrap_or(q.current_pcie_link_width, Driver.current_pcie_link_width, 0)]

\* get_static_info: device_by_index(..).unwrap() panics on a failed lookup
get_static_info(a) ==
    IF ~a.device_ok THEN [panicked |-> TRUE, info |-> GpuInfo(NoInfoQueries)]
    ELSE [panicked |-> FALSE, info |-> GpuInfo(a.q)]

\* the process list the driver reports in the call-by-call runs
DriverProcs == <<[pid |-> 1, used_gpu_memory |-> Used(1)]>>

\* which of the best-effort queries of sample succeed
BestEffort ==
    [clock_graphics : BOOLEAN, clock_memory : BOOLEAN, power_usage : BOOLEAN,
     power_management_limit : BOOLEAN, fan_speed : BOOLEAN,
     pcie_send : BOOLEAN, pcie_receive : BOOLEAN,
     running_graphics_processes : BOOLEAN]

\* the answers when a ? ended the call before the best-effort queries
NoBestEffort ==
    [clock_graphics |-> FALSE, clock_memory |-> FALSE, power_usage |-> FALSE,
     power_management_limit |-> FALSE, fan_speed |-> FALSE,
     pcie_send |-> FALSE, pcie_receive |-> FALSE,
     running_graphics_processes |-> FALSE]

\* the queries of sample that end the call with ? when they fail, in the
\* order they are made
EarlyQueries == {"device_by_index", "utilization_rates", "memory_info", "temperature"}

\* the answers to one sample: the first failing early query ("none" when all
\* succeed), and the best-effort answers, asked only after the early ones
SampleAnswers ==
    {[failed |-> "none", q |-> q] : q \in BestEffort}
        \cup {[failed |-> f, q |-> NoBestEffort] : f \in EarlyQueries}

\* match (power_usage(), power_management_limit()): both or (0.0, 0.0)
power_pair(q) ==
    IF q.power_usage /\ q.power_management_limit
    THEN <<Driver.power_usage \div 1000, Driver.power_management_limit \div 1000>>
    ELSE <<0, 0>>

\* match (pcie_throughput(Send), pcie_throughput(Receive)): the pair binds
\* (rx, tx) and yields (tx / 1024, rx / 1024) as (pcie_tx, pcie_rx)
pcie_pair(q) ==
    IF q.pcie_send /\ q.pcie_receive
    THEN LET rx == Driver.pcie_send
             tx == Driver.pcie_receive
         IN  <<tx \div 1024, rx \div 1024>>
    ELSE <<0, 0>>

\* NvmlMonitor::sample
sample(a, now) ==
    IF a.failed # "none" THEN Err(from_nvml_error)
    ELSE [ok |-> TRUE,
          kind |-> "sample",
          gpu_data |->
              [timestamp |-> now,
               utilization |-> Driver.utilization,
               memory_used |-> ((Driver.memory_used \div 1024) \div 1024) \div 1024,
               memory_total |-> ((Driver.memory_total \div 1024) \div 1024) \div 1024,
               temperature |-> Driver.temperature,
               gpu_clock |-> unwrap_or(a.q.clock_graphics, Driver.clock_graphics, 0),
               memory_clock |-> unwrap_or(a.q.clock_memory, Driver.clock_memory, 0),
               power_usage |-> power_pair(a.q)[1],
               power_limit |-> power_pair(a.q)[2],
               fan_speed |-> unwrap_or(a.q.fan_speed, Driver.fan_speed, 0),
               pcie_throughput_tx |-> pcie_pair(a.q)[1],
               pcie_throughput_rx |-> pcie_pair(a.q)[2]],
          proc_infos |->
              process_infos_monitor(
                  IF a.q.running_graphics_processes
                  THEN [ok |-> TRUE, procs |-> DriverProcs]
                  ELSE ProcsErr)]

pipelineVars ==
    <<program, clock, sampler_pc, out, produced, chan, receiver, data,
      processes, display_duration, ui_pc, proc_infos, window_start_time, held,
      drained_in_pass, drained_lists>>

InitMonitor ==
    /\ program = "app"
    /\ clock = 0
    /\ sampler_pc = "exited"
    /\ out = <<>>
    /\ produced = 0
    /\ chan = <<>>
    /\ receiver = "alive"
    /\ data = <<>>
    /\ processes = <<>>
    /\ display_duration = AppDisplayDuration
    /\ ui_pc = "closed"
    /\ proc_infos = <<>>
    /\ window_start_time = 0
    /\ held = <<>>
    /\ drained_in_pass = FALSE
    /\ drained_lists = {}
    /\ monitor = "unbuilt"
    /\ asked = NoCall
    /\ result = NoCall
    /\ plot = NoPlot

\* NvmlMonitor::new(0), as create_monitor calls it
MonNew ==
    /\ monitor = "unbuilt"
    /\ \E a \in NewAnswers :
          /\ asked' = [call |-> "new", a |-> a]
          /\ result' = [call |-> "new", r |-> new(a)]
          /\ monitor' = IF new(a).ok THEN "built" ELSE "unbuilt"
    /\ UNCHANGED <<pipelineVars, plot>>

\* monitor.get_static_info()
MonStaticInfo ==
    /\ monitor = "built"
    /\ \E a \in InfoAnswers :
          /\ asked' = [call |-> "get_static_info", a |-> a]
          /\ result' = [call |-> "get_static_info", r |-> get_static_info(a)]
          /\ monitor' = IF get_static_info(a).panicked THEN "panicked" ELSE "built"
    /\ UNCHANGED <<pipelineVars, plot>>

\* monitor.sample()
MonSample ==
    /\ monitor = "built"
    /\ \E a \in SampleAnswers :
          /\ asked' = [call |-> "sample", a |-> a]
          /\ result' = [call |-> "sample", r |-> sample(a, clock)]
    /\ UNCHANGED <<pipelineVars, plot, monitor>>

NextMonitor == MonNew \/ MonStaticInfo \/ MonSample

SpecMonitor == InitMonitor /\ [][NextMonitor]_vars

\* the last call was a sample / a sample that returned Ok
Sampled == result.call = "sample"
SampledOk == Sampled /\ result.r.ok

\* the best-effort part of a successful sample: a failed clock or fan query
\* leaves 0 and a successful one its value; power and PCIe throughput are 0
\* whenever one of their two queries failed; a failed enumeration leaves an
\* empty process list
BestEffortFilled ==
    LET q == asked.a.q
        g == result.r.gpu_data
    IN  /\ g.gpu_clock = IF q.clock_graphics THEN Driver.clock_graphics ELSE 0
        /\ g.memory_clock = IF q.clock_memory THEN Driver.clock_memory ELSE 0
        /\ g.fan_speed = IF q.fan_speed THEN Driver.fan_speed ELSE 0
        /\ ~q.power_usage => g.power_usage = 0
        /\ ~q.power_management_limit => g.power_limit = 0
        /\ ~q.pcie_send => g.pcie_throughput_tx = 0 /\ g.pcie_throughput_rx = 0
        /\ ~q.pcie_receive => g.pcie_throughput_tx = 0 /\ g.pcie_throughput_rx = 0
        /\ ~q.running_graphics_processes => result.r.proc_infos = <<>>
        /\ q.running_graphics_processes => result.r.proc_infos # <<>>

(* C13 as stated: sample() fails only when the utilization, memory or
   temperature query fails, and otherwise returns a sample whose failed
   best-effort fields are zero and whose process list is empty after a failed
   enumeration. *)
C13_FailsOnlyOnCoreField ==
    Sampled =>
        /\ ~result.r.ok =>
               asked.a.failed \in {"utilization_rates", "memory_info", "temperature"}
        /\ result.r.ok => BestEffortFilled

(* C13, amended: sample() fails exactly when the device lookup or the
   utilization, memory or temperature query fails; for every combination of
   failures of the clock, power, fan, PCIe and process-enumeration queries it
   returns a successful sample with the failed fields zero and, after a failed
   enumeration, an empty process list. *)
C13_FailsOnlyOnEarlyQuery ==
    Sampled =>
        /\ result.r.ok <=> asked.a.failed = "none"
        /\ ~result.r.ok => asked.a.failed \in EarlyQueries
        /\ result.r.ok => BestEffortFilled

\* a successful sample in which every best-effort query failed
C13_Witness ==
    /\ SampledOk
    /\ asked.a.q = NoBestEffort
    /\ result.r.gpu_data.gpu_clock = 0
    /\ result.r.proc_infos = <<>>

(* C14: a failed core-field query makes sample() return an error of kind
   SamplingFailed, and the monitor stays usable. *)
C14_SamplingFailedKind ==
    (Sampled /\ asked.a.failed \in {"utilization_rates", "memory_info", "temperature"}) =>
        /\ ~result.r.ok
        /\ result.r.kind = "SamplingFailed"
        /\ monitor = "built"

(* C15: constructing the monitor for a device index that does not exist fails
   with the kind DeviceNotFound and leaves no monitor. *)
C15_DeviceNotFoundKind ==
    (result.call = "new" /\ asked.a.init_ok /\ ~asked.a.device_ok) =>
        /\ ~result.r.ok
        /\ result.r.kind = "DeviceNotFound"
        /\ monitor = "unbuilt"

(* C16: get_static_info() never panics and returns a GpuInfo in which each
   field whose query failed holds its placeholder and every other field the
   queried value. *)
C16_StaticInfoNeverPanics ==
    /\ monitor # "panicked"
    /\ result.call = "get_static_info" =>
           /\ ~result.r.panicked
           /\ \A f \in {"name", "uuid", "vbios_version"} :
                  result.r.info[f] = IF asked.a.q[f] THEN Driver[f] ELSE "N/A"
           /\ result.r.info.driver_version =
                  IF asked.a.q.sys_driver_version THEN Driver.sys_driver_version
                  ELSE "N/A"
           /\ result.r.info.pcie_gen =
                  IF asked.a.q.current_pcie_link_gen
                  THEN Driver.current_pcie_link_gen ELSE 0
           /\ result.r.info.pcie_width =
                  IF asked.a.q.current_pcie_link_width
                  THEN Driver.current_pcie_link_width ELSE 0

(* C17: when driver initialization or device selection fails, the application
   does not get to render its (empty) chart: it refuses to start or shows a
   no-monitor state instead. *)
C17_NoEmptyChart ==
    sampler_pc = "exited" => ui_pc # "render"

(* C18: the channel never holds more than its capacity; while it is full the
   sampler stays in send and takes no further sample; and an entry the sampler
   took leaves its hands only into the channel, unless the receiver is gone. *)
C18_BoundedBlockingSend ==
    /\ [](Len(chan) <= ChannelCap)
    /\ [][(sampler_pc = "send" /\ receiver = "alive" /\ Len(chan) = ChannelCap) =>
              (sampler_pc' = "send" /\ out' = out /\ produced' = produced)]_vars
    /\ [][(out # <<>> /\ out' # out) =>
              (receiver = "dropped" \/ chan' = Append(chan, out[1]))]_vars

\* the sampler is blocked in send on a full channel
C18_Witness ==
    /\ sampler_pc = "send"
    /\ receiver = "alive"
    /\ out # <<>>
    /\ Len(chan) = ChannelCap

(* C19: once in its loop, the sampler leaves it only through a send that fails
   because the receiver has been dropped. *)
C19_OnlyExit ==
    [][(sampler_pc \in {"sample", "send", "sleep"}
            /\ sampler_pc' \notin {"sample", "send", "sleep"}) =>
          (sampler_pc = "send" /\ receiver = "dropped" /\ sampler_pc' = "done")]_vars

\* the loop has ended after samples failed and samples were sent
C19_Witness ==
    /\ sampler_pc = "done"
    /\ receiver = "dropped"
    /\ produced >= 2
    /\ clock > 0

(* C20: a receive attempt of the drain never waits: wherever the sampler is,
   the attempt can be made at once, and on an empty channel it ends the drain
   and takes update() to the render. *)
C20_NonBlockingDrain ==
    (ui_pc = "recv" /\ receiver = "alive") =>
        /\ ENABLED UiTryRecv
        /\ chan = <<>> => ENABLED (UiTryRecv /\ ui_pc' = "render")

\* the tick has gone on to render without a sample while the sampler sleeps
C20_Witness ==
    /\ ui_pc = "render"
    /\ ~drained_in_pass
    /\ chan = <<>>
    /\ data = <<>>
    /\ sampler_pc = "sleep"

(* C21: each best-effort value of a sample is zero-filled on its own: a value
   whose query failed is zero and every value whose query succeeded is the
   queried one, whatever happened to the other queries (the PCIe part is
   stated without regard to which of the two fields a counter lands in). *)
C21_IndependentZeroFill ==
    SampledOk =>
        LET q == asked.a.q
            g == result.r.gpu_data
            pcie == {g.pcie_throughput_tx, g.pcie_throughput_rx}
        IN  /\ g.gpu_clock = IF q.clock_graphics THEN Driver.clock_graphics ELSE 0
            /\ g.memory_clock = IF q.clock_memory THEN Driver.clock_memory ELSE 0
            /\ g.fan_speed = IF q.fan_speed THEN Driver.fan_speed ELSE 0
            /\ g.power_usage =
                   IF q.power_usage THEN Driver.power_usage \div 1000 ELSE 0
            /\ g.power_limit =
                   IF q.power_management_limit
                   THEN Driver.power_management_limit \div 1000 ELSE 0
            /\ q.pcie_send => (Driver.pcie_send \div 1024) \in pcie
            /\ q.pcie_receive => (Driver.pcie_receive \div 1024) \in pcie
            /\ ~(q.pcie_send /\ q.pcie_receive) => 0 \in pcie

(* C24: in every successful sample where both PCIe queries succeed,
   pcie_throughput_tx is the driver's Send counter divided by 1024 and
   pcie_throughput_rx its Receive counter divided by 1024. *)
C24_PcieDirections ==
    (SampledOk /\ asked.a.q.pcie_send /\ asked.a.q.pcie_receive) =>
        /\ result.r.gpu_data.pcie_throughput_tx = Driver.pcie_send \div 1024
        /\ result.r.gpu_data.pcie_throughput_rx = Driver.pcie_receive \div 1024

(* C22: in the time-bounded consumer (app.rs) a drain step never evicts the
   sample it has just appended: once a sample has been drained the history is
   never empty again while the application lives, and its last element is the
   sample drained last. *)
C22_AppendedSurvives ==
    /\ [][(program = "app" /\ EvictStep) =>
              (data' # <<>> /\ Newest(data') = Newest(data))]_vars
    /\ [](program = "app" /\ ui_pc # "closed" /\ drained_lists # {} =>
              /\ data # <<>>
              /\ Newest(data).seq = produced - Len(chan) - Len(out) - 1)

\* a drain step has evicted every older sample and kept the one it appended
C22_Witness ==
    /\ program = "app"
    /\ ui_pc = "recv"
    /\ held = <<>>
    /\ Len(data) = 1
    /\ Newest(data).seq >= 1
    /\ Newest(data).seq = produced - Len(chan) - Len(out) - 1

----------------------------------------------------------------------------
(* The pipeline under fair scheduling of the sampler thread.  Once the      *)
(* receiver is dropped no timestamp is read any more, so the sleeps after   *)
(* the last second counted are taken without counting time.                 *)

SamplerSleepLate ==
    /\ sampler_pc = "sleep"
    /\ receiver = "dropped"
    /\ clock + MinStep > MaxTime
    /\ sampler_pc' = "sample"
    /\ UNCHANGED <<program, clock, out, produced, chan, receiver>>
    /\ UNCHANGED uiVars
    /\ UNCHANGED fnVars

NextFair ==
    \/ SamplerInit
    \/ SamplerSample
    \/ SamplerSend
    \/ SamplerSleep
    \/ SamplerSleepLate
    \/ UiTryRecv
    \/ UiEvict
    \/ UiRender
    \/ UiClose

\* the sampler thread is scheduled fairly: a step it can take is taken
SpecFair ==
    /\ Init
    /\ [][NextFair]_vars
    /\ WF_vars(SamplerInit)
    /\ WF_vars(SamplerSample)
    /\ WF_vars(SamplerSend)
    /\ WF_vars(SamplerSleep \/ SamplerSleepLate)

(* C25 as stated: after the receiver is dropped the sampler loop eventually
   terminates, for every pattern of sampling successes and failures. *)
C25_EventuallyTerminates ==
    (receiver = "dropped") ~> (sampler_pc \in {"done", "exited"})

(* C25, amended: after the receiver is dropped the sampler loop terminates at
   its next send: a sampler that is in send when the receiver is gone (blocked
   on a full channel at the drop, or after a later successful sample)
   eventually terminates; while every sample fails it keeps looping. *)
C25_TerminatesAtNextSend ==
    (receiver = "dropped" /\ sampler_pc = "send") ~> (sampler_pc = "done")

\* the sampler holds an entry in send and the receiver is gone
C25_Witness ==
    /\ receiver = "dropped"
    /\ sampler_pc = "send"
    /\ out # <<>>
    /\ produced >= 2

----------------------------------------------------------------------------
(* update() lock by lock: the same pipeline, with every acquisition and     *)
(* release of the two store locks of the UI thread a step of its own.  A    *)
(* std::sync::Mutex is not reentrant: lock() returns only while the lock is *)
(* free.                                                                    *)

lock_free(l, h) == \A i \in 1..Len(h) : h[i] # l

\* .lock().unwrap(): the guard is the newest one held
lock(h, l) == Append(h, l)

\* the end of the scope drops every guard taken in it
drop_guards_leak(h) == h
drop_guards(h) == <<>>

\* try_recv() and, for an entry received, self.data.lock() with the work done
\* under the history lock alone: the push (and in app.rs the eviction)
LkTryRecv ==
    /\ ui_pc = "recv"
    /\ receiver = "alive"
    /\ try_recv_returns(chan)
    /\ LET r == try_recv(chan)
       IN  IF r.ok
           THEN /\ lock_free("data", held)
                /\ held' = lock(held, "data")
                /\ chan' = Tail(chan)
                /\ proc_infos' = r.proc_infos
                /\ IF program = "app"
                   THEN LET ws == window_start(r.gpu_data.timestamp, display_duration)
                        IN  /\ window_start_time' = ws
                            /\ data' = evict_time(data_after_recv(r, data), ws)
                   ELSE /\ data' = data_after_recv(r, data)
                        /\ UNCHANGED window_start_time
                /\ ui_pc' = "drain_data"
                /\ drained_in_pass' = TRUE
                /\ drained_lists' = drained_lists \cup {r.proc_infos}
           ELSE /\ ui_pc' = "render"
                /\ UNCHANGED <<chan, proc_infos, window_start_time, data, held,
                               drained_in_pass, drained_lists>>
    /\ UNCHANGED <<program, clock, sampler_pc, out, produced, receiver,
                   processes, display_duration>>
    /\ UNCHANGED fnVars

\* self.processes.lock() inside the drain, the replacement of the process
\* table (and in main.rs the eviction, which comes after it)
LkDrainProcesses ==
    /\ ui_pc = "drain_data"
    /\ lock_free("processes", held)
    /\ held' = lock(held, "processes")
    /\ processes' = replace(processes, proc_infos)
    /\ data' = IF program = "main" THEN evict_count(data, MaxDataPoints) ELSE data
    /\ ui_pc' = "drain_end"
    /\ UNCHANGED <<program, clock, sampler_pc, out, produced, chan, receiver,
                   display_duration, proc_infos, window_start_time,
                   drained_in_pass, drained_lists>>
    /\ UNCHANGED fnVars

\* the end of the loop body
LkDrainEnd ==
    /\ ui_pc = "drain_end"
    /\ held' = drop_guards(held)
    /\ ui_pc' = "recv"
    /\ UNCHANGED <<program, clock, sampler_pc, out, produced, chan, receiver,
                   data, processes, display_duration, proc_infos,
                   window_start_time, drained_in_pass, drained_lists>>
    /\ UNCHANGED fnVars

\* let data_guard = self.data.lock().unwrap()
LkRenderData ==
    /\ ui_pc = "render"
    /\ lock_free("data", held)
    /\ held' = lock(held, "data")
    /\ ui_pc' = "render_data"
    /\ UNCHANGED <<program, clock, sampler_pc, out, produced, chan, receiver,
                   data, processes, display_duration, proc_infos,
                   window_start_time, drained_in_pass, drained_lists>>
    /\ UNCHANGED fnVars

\* let processes = self.processes.lock().unwrap(), with data_guard alive
LkRenderProcesses ==
    /\ ui_pc = "render_data"
    /\ lock_free("processes", held)
    /\ held' = lock(held, "processes")
    /\ ui_pc' = "render_processes"
    /\ UNCHANGED <<program, clock, sampler_pc, out, produced, chan, receiver,
                   data, processes, display_duration, proc_infos,
                   window_start_time, drained_in_pass, drained_lists>>
    /\ UNCHANGED fnVars

\* the rest of the central panel (in main.rs the duration buttons); the
\* closures end and the frame is over
LkRenderEnd ==
    /\ ui_pc = "render_processes"
    /\ IF program = "main"
       THEN \E button \in Buttons :
                display_duration' = clicked(button, display_duration, now_of(data))
       ELSE UNCHANGED display_duration
    /\ held' = drop_guards(held)
    /\ ui_pc' = "recv"
    /\ drained_in_pass' = FALSE
    /\ UNCHANGED <<program, clock, sampler_pc, out, produced, chan, receiver,
                   data, processes, proc_infos, window_start_time,
                   drained_lists>>
    /\ UNCHANGED fnVars

\* the steps of the UI thread inside update()
UiLockSteps ==
    \/ LkTryRecv
    \/ LkDrainProcesses
    \/ LkDrainEnd
    \/ LkRenderData
    \/ LkRenderProcesses
    \/ LkRenderEnd

NextLocks ==
    \/ SamplerInit
    \/ SamplerSample
    \/ SamplerSend
    \/ SamplerSleep
    \/ LkTryRecv
    \/ LkDrainProcesses
    \/ LkDrainEnd
    \/ LkRenderData
    \/ LkRenderProcesses
    \/ LkRenderEnd
    \/ UiClose

SpecLocks == Init /\ [][NextLocks]_vars

(* C23: the UI thread takes the two store locks in the order history, process
   table, and holds neither when it asks for the history lock; the sampler
   thread takes no lock; so the UI thread can always take its next step inside
   update(), and a send that has room (or a dropped receiver) can proceed
   whichever locks are held. *)
C23_LockOrder ==
    /\ [](held \in {<<>>, <<"data">>, <<"data", "processes">>})
    /\ [](ui_pc \in {"recv", "render"} => held = <<>>)
    /\ [](ui_pc # "closed" => ENABLED UiLockSteps)
    /\ []((sampler_pc = "send" /\ (receiver = "dropped" \/ ~is_full(chan))) =>
              ENABLED SamplerSend)
    /\ [][sampler_pc' # sampler_pc => held' = held]_vars

\* the sampler sends while the UI thread holds both locks in the render
C23_Witness ==
    /\ held = <<"data", "processes">>
    /\ ui_pc = "render_processes"
    /\ sampler_pc = "sleep"
    /\ chan # <<>>
    /\ data # <<>>

====
